---- MODULE Spec2Model ----
(***************************************************************************)
(* A model of pyoculus/solvers/qfm.py: the QFM solver object, its          *)
(* action() surface assembly (continuation loop, fold, resampling), the    *)
(* residual evaluator action_gradient(), straighten_boundary(), the DOF    *)
(* codec _pack_dof/_unpack_dof and the 1D spectral transforms.             *)
(*                                                                         *)
(* Python indices are 0-based and slices half open; TLA+ sequences are     *)
(* 1-based.  Slice(s, a, b) is Python's s[a:b].                            *)
(***************************************************************************)
EXTENDS Integers, Sequences, FiniteSets, TLC

VARIABLES
    \* ---- DOF codec (_pack_dof / _unpack_dof as pure functions)
    cd_pc,      \* "idle" | "pack" | "unpack" | "done"
    cd_dir,     \* "state": pack then unpack; "vector": unpack then pack
    cd_in,      \* the input (a state record or a DOF vector)
    cd_mid,     \* the intermediate value
    cd_out,     \* the value after the round trip
    \* ---- rfft1D / irfft1D
    ft_pc,      \* "idle" | "irfft" | "rfft" | "done_irfft" | "done_rfft"
    ft_cos, ft_sin, ft_mult,   \* irfft1D's arguments (rfft1D's f is held in ft_cos)
    ft_ffft,    \* the complex spectrum handed to / received from numpy
    ft_out,     \* the result
    \* ---- the fold and the resampling of action(), one loop iteration per step
    fd_pc,      \* "idle" | "fold" | "resample" | "done"
    fd_pp, fd_qq, fd_MM, fd_pqNtor,
    fd_i,       \* the loop index
    fd_alpha,   \* r2D_alpha: [row, col] -> sample tag or Zero
    fd_vartheta,\* r2D_vartheta
    fd_writes,  \* history: number of writes to each cell of r2D_alpha
    fd_used,    \* history: the block indices idx computed so far, in order
    \* ---- straighten_boundary
    sb_pc,      \* "idle" | "loop" | "returned"
    sb_niter, sb_tol, sb_i,
    sb_state,   \* the round that produced (iota, lambda_sn, lambda_cn); 0 = initial zeros
    sb_err,     \* <<erriota, errcn, errsn>> of the last round
    sb_evals,   \* history: number of B_many calls
    sb_conv,    \* history: rounds whose errors were all below tol
    sb_ret,     \* the returned state (the round that produced it)
    \* ---- the solver object and calls of action / action_gradient
    params,     \* [nfft_multiplier, pqNtor, mode] as given to __init__
    grids,      \* self._nlist, self._zeta, self._nzq, _cnzq, _snzq: what they were built from
    pc,         \* "idle" | "loop" | "assemble" | "returned" | "raised"
    pp, qq,     \* the arguments of the running action call
    jpq,        \* the loop index
    arr,        \* nvarr/rcnarr/tsnarr/rsnarr/tcnarr: the converged states, in order
    rguess,     \* the rguess argument
    guess,      \* (nv0, rcn0, tsn0, rsn0, tcn0) of the current curve
    xx0,        \* the packed guess handed to root
    calls,      \* history: the solver invocations <<jpq, a, guess>>, in order
    result,     \* what the call produced
    ncalls,     \* history: calls made on the object so far
    grad        \* the outcome of the last direct action_gradient call

codecVars == <<cd_pc, cd_dir, cd_in, cd_mid, cd_out>>
fftVars == <<ft_pc, ft_cos, ft_sin, ft_mult, ft_ffft, ft_out>>
foldVars == <<fd_pc, fd_pp, fd_qq, fd_MM, fd_pqNtor, fd_i, fd_alpha, fd_vartheta, fd_writes, fd_used>>
sbVars == <<sb_pc, sb_niter, sb_tol, sb_i, sb_state, sb_err, sb_evals, sb_conv, sb_ret>>
objVars == <<params, grids, pc, pp, qq, rguess, jpq, arr, guess, xx0, calls, result, ncalls, grad>>
vars == <<codecVars, fftVars, foldVars, sbVars, objVars>>

None == "none"

(***************************************************************************)
(* Bounds of the model.                                                    *)
(***************************************************************************)
MantBits == 3        \* significand width of the scaled-down binary float
MaxCodecQN == 2      \* the codec is run for qN in 1..MaxCodecQN
MaxLen == 3          \* irfft1D: coefficient length in 2..MaxLen
MaxMult == 2         \* nfft_multiplier in 1..MaxMult
MaxQ == 3            \* qq in 1..MaxQ
MaxP == 2            \* pp in 0..MaxP (the fold also takes pp = -1)
MaxNtor == 2         \* pqNtor in 1..MaxNtor
MaxFM == 4           \* only objects with fM = MM*pqNtor <= MaxFM
MaxNiter == 3        \* straighten_boundary: niter in 0..MaxNiter
MaxCalls == 2        \* calls made on one solver object

(***************************************************************************)
(* numpy float64 arithmetic, scaled down: a number is an integer k         *)
(* standing for k * 2^-FracBits, and every arithmetic result is rounded    *)
(* to MantBits significant bits, ties to even (IEEE 754 round-to-nearest). *)
(***************************************************************************)
FracBits == MantBits

RECURSIVE Pow2(_)
Pow2(n) == IF n <= 0 THEN 1 ELSE 2 * Pow2(n - 1)

RECURSIVE BitLen(_)
BitLen(a) == IF a = 0 THEN 0 ELSE 1 + BitLen(a \div 2)

Abs(k) == IF k < 0 THEN -k ELSE k

\* the float nearest to num / den (den > 0), in units of 2^-FracBits
RoundRat(num, den) ==
    LET a == Abs(num)
        e == BitLen(a \div den)
        sh == IF e <= MantBits THEN 1 ELSE Pow2(e - MantBits)
        D == den * sh
        q == a \div D
        r == a % D
        m == IF 2 * r > D \/ (2 * r = D /\ q % 2 = 1) THEN q + 1 ELSE q
    IN  IF num < 0 THEN -(m * sh) ELSE m * sh

Round(k) == RoundRat(k, 1)

One == Pow2(FracBits)
fadd(x, y) == Round(x + y)
fsub(x, y) == Round(x - y)
\* float * int and float / int, the int converted exactly
fmuli(x, n) == Round(x * n)
fdivi(x, n) == RoundRat(x, n)
\* np.pi * 2, from pi ~ 355/113
TwoPi == RoundRat(710 * One, 113)

\* Python's s[a:b] for 0 <= a, b <= len(s)
Slice(s, a, b) == IF b <= a THEN <<>> ELSE SubSeq(s, a + 1, b)

AddScalar(s, c) == [i \in 1..Len(s) |-> fadd(s[i], c)]
SubScalar(s, c) == [i \in 1..Len(s) |-> fsub(s[i], c)]

(***************************************************************************)
(* The DOF codec.                                                          *)
(***************************************************************************)
State(nv, rcn, tsn, rsn, tcn) == [nv |-> nv, rcn |-> rcn, tsn |-> tsn, rsn |-> rsn, tcn |-> tcn]

\* a plausible slip: the sine blocks concatenated in the order of the argument
\* list of _unpack_dof's return (rsn before tsn)
pack_dof_swapped(nv, rcn, tsn, rsn, tcn) ==
    AddScalar(<<nv>> \o rcn \o Slice(rsn, 1, Len(rsn) - 1) \o Slice(tsn, 1, Len(tsn) - 1) \o tcn, One)

pack_dof(nv, rcn, tsn, rsn, tcn) ==
    AddScalar(<<nv>> \o rcn \o Slice(tsn, 1, Len(tsn) - 1) \o Slice(rsn, 1, Len(rsn) - 1) \o tcn, One)

unpack_dof(xx) ==
    LET qN == (Len(xx) - 1) \div 4
    IN  State(fsub(xx[1], One),
              SubScalar(Slice(xx, 1, qN + 2), One),
              <<0>> \o SubScalar(Slice(xx, qN + 2, 2 * qN + 1), One) \o <<0>>,
              <<0>> \o SubScalar(Slice(xx, 2 * qN + 1, 3 * qN), One) \o <<0>>,
              SubScalar(Slice(xx, 3 * qN, Len(xx)), One))

PackState(s) == pack_dof(s.nv, s.rcn, s.tsn, s.rsn, s.tcn)

\* the values the codec is exercised on: 0, 1.0, and the smallest positive
\* and negative numbers of the format (x + 1 is not representable for them)
CodecVals == {0, One, 1, -1}

Vectors(n, V) == [1..n -> V]
\* tsn, rsn: first and last entry zero
Pinned(n, V) == {s \in Vectors(n, V \cup {0}) : s[1] = 0 /\ s[n] = 0}

ValidStates(qN, V) ==
    {State(nv, rcn, tsn, rsn, tcn) :
        nv \in V, rcn \in Vectors(qN + 1, V), tsn \in Pinned(qN + 1, V),
        rsn \in Pinned(qN + 1, V), tcn \in Vectors(qN + 1, V)}

CodecIdle ==
    /\ cd_pc = "idle" /\ cd_dir = None /\ cd_in = None /\ cd_mid = None /\ cd_out = None

CodecInit ==
    /\ cd_mid = None /\ cd_out = None
    /\ \E qN \in 1..MaxCodecQN : \E a \in CodecVals : \E b \in {v \in CodecVals : a < v} :
         \/ /\ cd_dir = "state" /\ cd_pc = "pack"
            /\ cd_in \in ValidStates(qN, {a, b})
         \/ /\ cd_dir = "vector" /\ cd_pc = "unpack"
            /\ cd_in \in Vectors(4 * qN + 1, {a, b})

Pack ==
    /\ cd_pc = "pack"
    /\ IF cd_dir = "state"
          THEN /\ cd_mid' = PackState(cd_in)
               /\ cd_pc' = "unpack"
               /\ cd_out' = cd_out
          ELSE /\ cd_out' = PackState(cd_mid)
               /\ cd_pc' = "done"
               /\ cd_mid' = cd_mid
    /\ UNCHANGED <<cd_dir, cd_in>>

Unpack ==
    /\ cd_pc = "unpack"
    /\ IF cd_dir = "vector"
          THEN /\ cd_mid' = unpack_dof(cd_in)
               /\ cd_pc' = "pack"
               /\ cd_out' = cd_out
          ELSE /\ cd_out' = unpack_dof(cd_mid)
               /\ cd_pc' = "done"
               /\ cd_mid' = cd_mid
    /\ UNCHANGED <<cd_dir, cd_in>>

(***************************************************************************)
(* rfft1D and irfft1D.  A complex number is a pair <<re, im>>.  The        *)
(* coefficients used here are small integers, for which the float64        *)
(* products and quotients below are exact.                                 *)
(***************************************************************************)
irfft1D_Nfft(cos_in, nfft_multiplier) == nfft_multiplier * (Len(cos_in) - 1)

\* line 402-404: the copy of sin_in with its first and last entry zeroed
sin_in_new(sin_in) == [sin_in EXCEPT ![1] = 0, ![Len(sin_in)] = 0]

\* line 405-406: ffft = (cos_in - 1j * sin_in) * Nfft; ffft[..., 0] *= 2
irfft1D_ffft(cos_in, sin_in, nfft_multiplier) ==
    LET Nfft == irfft1D_Nfft(cos_in, nfft_multiplier)
    IN  [i \in 1..Len(cos_in) |->
            IF i = 1 THEN <<2 * cos_in[i] * Nfft, -(2 * sin_in[i] * Nfft)>>
                     ELSE <<cos_in[i] * Nfft, -(sin_in[i] * Nfft)>>]

\* a slip in the requested length: Nfft output points instead of 2 * Nfft
irfft1D_npoints_single(cos_in, nfft_multiplier) == irfft1D_Nfft(cos_in, nfft_multiplier)

\* line 407: the second argument of np.fft.irfft
irfft1D_npoints(cos_in, nfft_multiplier) == 2 * irfft1D_Nfft(cos_in, nfft_multiplier)

\* np.fft.irfft(a, n): n real samples.  The inverse real DFT reads the first
\* n/2 + 1 entries of a (zero-padded when a is shorter), ignores the imaginary
\* part of entry 0 and, n being even, of entry n/2, and is one-to-one on what
\* remains; its result is represented by n and the modes it depends on.
np_irfft(a, n) ==
    [len   |-> n,
     modes |-> [k \in 1..(n \div 2 + 1) |->
                  IF k > Len(a) THEN <<0, 0>>
                  ELSE IF k = 1 \/ (k = n \div 2 + 1 /\ n % 2 = 0) THEN <<a[k][1], 0>>
                  ELSE a[k]]]

irfft1D(cos_in, sin_in, nfft_multiplier) ==
    np_irfft(irfft1D_ffft(cos_in, sin_in, nfft_multiplier),
             irfft1D_npoints(cos_in, nfft_multiplier))

\* np.fft.rfft(f) for len(f) in {2, 4}, where the DFT is exact in integers
np_rfft(f) ==
    IF Len(f) = 2 THEN << <<f[1] + f[2], 0>>, <<f[1] - f[2], 0>> >>
    ELSE << <<f[1] + f[2] + f[3] + f[4], 0>>,
            <<f[1] - f[3], f[4] - f[2]>>,
            <<f[1] - f[2] + f[3] - f[4], 0>> >>

\* rfft1D: returns [cosout, sinout]
rfft1D(f) ==
    LET Nfft == Len(f)
        ffft == np_rfft(f)
        cosout == [i \in 1..Len(ffft) |-> (ffft[i][1] \div Nfft) * 2]
        sinout == [i \in 1..Len(ffft) |-> (-ffft[i][2] \div Nfft) * 2]
    IN  [cosout |-> [cosout EXCEPT ![1] = cosout[1] \div 2],
         sinout |-> [sinout EXCEPT ![1] = 0]]

CosVals == {0, 1}
SinVals == {-1, 0, 1}
\* real samples: multiples of 4, so that the divisions by Nfft are exact
SampleVals == {0, 4, -4}

FftIdle ==
    /\ ft_pc = "idle" /\ ft_cos = None /\ ft_sin = None /\ ft_mult = None
    /\ ft_ffft = None /\ ft_out = None

FftInit ==
    /\ ft_ffft = None /\ ft_out = None
    /\ \/ /\ ft_pc = "irfft"
          /\ ft_mult \in 1..MaxMult
          /\ \E L \in 2..MaxLen :
                /\ ft_cos \in Vectors(L, CosVals)
                /\ ft_sin \in Vectors(L, SinVals)
       \/ /\ ft_pc = "rfft"
          /\ ft_mult = None /\ ft_sin = None
          /\ \E N \in {2, 4} : ft_cos \in Vectors(N, SampleVals)

\* a call irfft1D(ft_cos, ft_sin, ft_mult)
Irfft1DCall ==
    /\ ft_pc = "irfft"
    /\ ft_ffft' = irfft1D_ffft(ft_cos, ft_sin, ft_mult)
    /\ ft_out' = irfft1D(ft_cos, ft_sin, ft_mult)
    /\ ft_pc' = "done_irfft"
    /\ UNCHANGED <<ft_cos, ft_sin, ft_mult>>

\* a call rfft1D(f), f held in ft_cos
Rfft1DCall ==
    /\ ft_pc = "rfft"
    /\ ft_ffft' = np_rfft(ft_cos)
    /\ ft_out' = rfft1D(ft_cos)
    /\ ft_pc' = "done_rfft"
    /\ UNCHANGED <<ft_cos, ft_sin, ft_mult>>

(***************************************************************************)
(* action(): the sizes, the fold into (alpha, zeta) and the resampling     *)
(* into (vartheta, zeta).  A sample r[j, c] is represented by its tag      *)
(* <<j, c>> (0-based), a cell still holding np.zeros' value by ZeroCell.   *)
(***************************************************************************)
MMof(nfft_multiplier) == nfft_multiplier * 2
qNof(q, pqNtor) == q * pqNtor
fMof(MM, pqNtor) == MM * pqNtor
qfMof(q, MM, pqNtor) == q * MM * pqNtor
Nfftof(q, MM, pqNtor) == MM * q * pqNtor

ZeroCell == <<-1, -1>>
Cells(nrows, ncols) == (0..(nrows - 1)) \X (0..(ncols - 1))
Zeros(nrows, ncols) == [cell \in Cells(nrows, ncols) |-> ZeroCell]

\* r.shape[-1] for r = irfft1D(rcnarr, rsnarr, MM // 2), rcnarr of shape (fM, qN + 1)
rcols(q, MM, pqNtor) ==
    irfft1D_npoints([n \in 1..(qNof(q, pqNtor) + 1) |-> 0], MM \div 2)

Min(a, b) == IF a < b THEN a ELSE b
Max(a, b) == IF a < b THEN b ELSE a

\* a slip: the block index advanced by pp instead of multiplied
fold_idx_added(p, i, q) == (p + i) % q

\* line 235: idx = np.mod(pp * i, qq)
fold_idx(p, i, q) == (p * i) % q

\* lines 236-241: numpy accepts the two slice assignments when the source has
\* as many columns as the target, or one column (broadcast)
fold_shapes_ok(i, q, MM, pqNtor) ==
    LET nc == rcols(q, MM, pqNtor)
        t1 == Min((q - i) * pqNtor * MM, Nfftof(q, MM, pqNtor))
        s1 == Max(nc - i * pqNtor * MM, 0)
        t2 == Nfftof(q, MM, pqNtor) - t1
        s2 == Min(i * pqNtor * MM, nc)
    IN  (s1 = t1 \/ s1 = 1) /\ (s2 = t2 \/ s2 = 1)

\* lines 236-241: the cell of r copied to r2D_alpha[row, col] in iteration i,
\* row lying in block idx
fold_source(row, col, i, idx, q, MM, pqNtor) ==
    LET fM == fMof(MM, pqNtor)
        split == (q - i) * pqNtor * MM
    IN  IF col < split THEN <<row - idx * fM, i * pqNtor * MM + col>>
                       ELSE <<row - idx * fM, col - split>>

\* a slip in the direction of the shift
resample_idx_plus(k, i, p, qfM) == (k + i * p) % qfM

\* line 257: idx = np.mod(np.arange(0, qfM) - i * pp, qfM), entry k
resample_idx(k, i, p, qfM) == (k - i * p) % qfM

fd_fM == fMof(fd_MM, fd_pqNtor)
fd_qfM == qfMof(fd_qq, fd_MM, fd_pqNtor)
fd_Nfft == Nfftof(fd_qq, fd_MM, fd_pqNtor)

ObjParams ==
    {pr \in [nfft_multiplier : 1..MaxMult, pqNtor : 1..MaxNtor] :
        fMof(MMof(pr.nfft_multiplier), pr.pqNtor) <= MaxFM}

FoldIdle ==
    /\ fd_pc = "idle" /\ fd_pp = 0 /\ fd_qq = 0 /\ fd_MM = 0 /\ fd_pqNtor = 0 /\ fd_i = 0
    /\ fd_alpha = <<>> /\ fd_vartheta = <<>> /\ fd_writes = <<>> /\ fd_used = <<>>

\* the state of action() at line 231-233, all fM curves solved
FoldInit ==
    /\ fd_pc = "fold" /\ fd_i = 0
    /\ fd_pp \in (-1)..MaxP
    /\ fd_qq \in 1..MaxQ
    /\ \E pr \in ObjParams : fd_MM = MMof(pr.nfft_multiplier) /\ fd_pqNtor = pr.pqNtor
    /\ fd_alpha = Zeros(fd_qfM, fd_Nfft)
    /\ fd_writes = [cell \in Cells(fd_qfM, fd_Nfft) |-> 0]
    /\ fd_vartheta = <<>>
    /\ fd_used = <<>>

\* one iteration of "for i in range(qq)", lines 234-247
FoldStep ==
    /\ fd_pc = "fold"
    /\ LET idx == fold_idx(fd_pp, fd_i, fd_qq)
           inblock(cell) == idx * fd_fM <= cell[1] /\ cell[1] < (idx + 1) * fd_fM
       IN  IF fold_shapes_ok(fd_i, fd_qq, fd_MM, fd_pqNtor)
           THEN /\ fd_alpha' = [cell \in DOMAIN fd_alpha |->
                                  IF inblock(cell)
                                  THEN fold_source(cell[1], cell[2], fd_i, idx, fd_qq, fd_MM, fd_pqNtor)
                                  ELSE fd_alpha[cell]]
                /\ fd_writes' = [cell \in DOMAIN fd_writes |->
                                   IF inblock(cell) THEN fd_writes[cell] + 1 ELSE fd_writes[cell]]
                /\ fd_used' = Append(fd_used, idx)
                /\ IF fd_i + 1 < fd_qq
                      THEN /\ fd_i' = fd_i + 1
                           /\ UNCHANGED <<fd_pc, fd_vartheta>>
                      ELSE \* lines 249-250: r2D_vartheta = np.zeros([qfM, MM * pqNtor])
                           /\ fd_i' = 0
                           /\ fd_pc' = "resample"
                           /\ fd_vartheta' = Zeros(fd_qfM, fd_MM * fd_pqNtor)
           ELSE \* ValueError: could not broadcast
                /\ fd_pc' = "raised"
                /\ UNCHANGED <<fd_i, fd_alpha, fd_vartheta, fd_writes, fd_used>>
    /\ UNCHANGED <<fd_pp, fd_qq, fd_MM, fd_pqNtor>>

\* one iteration of "for i in range(MM * pqNtor)", lines 256-259
ResampleStep ==
    /\ fd_pc = "resample"
    /\ fd_vartheta' = [cell \in DOMAIN fd_vartheta |->
                         IF cell[2] = fd_i
                         THEN fd_alpha[<<resample_idx(cell[1], fd_i, fd_pp, fd_qfM), fd_i>>]
                         ELSE fd_vartheta[cell]]
    /\ IF fd_i + 1 < fd_MM * fd_pqNtor
          THEN fd_i' = fd_i + 1 /\ fd_pc' = fd_pc
          ELSE fd_i' = fd_i /\ fd_pc' = "done"
    /\ UNCHANGED <<fd_pp, fd_qq, fd_MM, fd_pqNtor, fd_alpha, fd_writes, fd_used>>

(***************************************************************************)
(* straighten_boundary.  The field evaluation and the transforms are       *)
(* external; a round's outcome is the triple of max-absolute changes       *)
(* (erriota, errcn, errsn), each a non-negative number or NaN (a resonant  *)
(* mode divides by zero without raising).                                  *)
(***************************************************************************)
Num(v) == [nan |-> FALSE, v |-> v]
NaN == [nan |-> TRUE, v |-> 0]
ErrVals == {NaN} \cup {Num(v) : v \in 0..2}
TolVals == {1, 2}

\* np.max of a sequence of floats: NaN propagates
np_max(errs) ==
    IF \E k \in DOMAIN errs : errs[k].nan THEN NaN
    ELSE Num(CHOOSE v \in {errs[k].v : k \in DOMAIN errs} :
                \A k \in DOMAIN errs : errs[k].v <= v)

\* x < tol for floats: FALSE when x is NaN
np_less(x, tol) == ~x.nan /\ x.v < tol

\* a slip: only the change of iota tested
sb_converged_iota_only(errs, tol) == np_less(errs[1], tol)

\* line 135: np.max([erriota, errcn, errsn]) < tol
sb_converged(errs, tol) == np_less(np_max(errs), tol)

SbIdle ==
    /\ sb_pc = "idle" /\ sb_niter = 0 /\ sb_i = 0 /\ sb_state = 0 /\ sb_err = <<>>
    /\ sb_evals = 0 /\ sb_conv = {} /\ sb_tol = 0 /\ sb_ret = 0

\* a call straighten_boundary(rho, tol, niter) at line 99, lambda and iota zero
SbInit ==
    /\ sb_pc = "loop" /\ sb_i = 0 /\ sb_state = 0 /\ sb_err = <<>>
    /\ sb_evals = 0 /\ sb_conv = {}
    /\ sb_niter \in 0..MaxNiter
    /\ sb_tol \in TolVals
    /\ sb_ret = 0

\* one round of "for i in range(niter)", lines 100-136
SbRound ==
    /\ sb_pc = "loop"
    /\ sb_i < sb_niter
    /\ \E errs \in [1..3 -> ErrVals] :
         /\ sb_evals' = sb_evals + 1                \* line 112: B_many
         /\ sb_state' = sb_i + 1                    \* lines 122-129
         /\ sb_err' = errs                          \* lines 131-133
         /\ sb_conv' = IF \A k \in 1..3 : ~errs[k].nan /\ errs[k].v < sb_tol
                          THEN sb_conv \cup {sb_i + 1} ELSE sb_conv
         /\ sb_pc' = IF sb_converged(errs, sb_tol) THEN "break" ELSE "loop"
    /\ sb_i' = sb_i + 1
    /\ UNCHANGED <<sb_niter, sb_tol, sb_ret>>

\* line 138: return iota, lambda_sn, lambda_cn
SbReturn ==
    /\ \/ sb_pc = "break"
       \/ sb_pc = "loop" /\ sb_i >= sb_niter
    /\ sb_ret' = sb_state
    /\ sb_pc' = "returned"
    /\ UNCHANGED <<sb_niter, sb_tol, sb_i, sb_state, sb_err, sb_evals, sb_conv>>

(***************************************************************************)
(* The solver object: __init__, action and action_gradient.  scipy's root  *)
(* and the field model are external: root evaluates the residual at the    *)
(* guess and then either fails or converges to some vector.                *)
(***************************************************************************)
Modes == {"real", "fourier", "spectral"}

\* the attributes action() stores on self (lines 160-168), by what determines
\* them: len(_nlist) = qN + 1, len(_zeta) = Nfft, _nzq = _nlist * _zeta / qq
NoGrids == [set |-> FALSE, qq |-> 0, qN |-> 0, Nfft |-> 0]

\* a slip: grids built once and kept
action_grids_lazy(old, q, MM, pqNtor) ==
    IF old.set THEN old
    ELSE [set |-> TRUE, qq |-> q, qN |-> qNof(q, pqNtor), Nfft |-> Nfftof(q, MM, pqNtor)]

action_grids(old, q, MM, pqNtor) ==
    [set |-> TRUE, qq |-> q, qN |-> qNof(q, pqNtor), Nfft |-> Nfftof(q, MM, pqNtor)]

ZeroSeq(n) == [i \in 1..n |-> 0]
ZeroState(qN) == State(0, ZeroSeq(qN + 1), ZeroSeq(qN + 1), ZeroSeq(qN + 1), ZeroSeq(qN + 1))

\* line 162: dt = (np.pi * 2 / qq) / fM
action_dt(q, fM) == fdivi(fdivi(TwoPi, q), fM)
\* line 178: a = jpq * dt
action_a(j, dt) == fmuli(dt, j)

\* lines 181-187
first_guess(qN, rg) == [ZeroState(qN) EXCEPT !.rcn[1] = rg]

\* a slip: the continuation step left out
next_guess_unstepped(prev, dt) == prev

\* lines 189-194: the previous curve's row of every array, tcn0[0] += dt
next_guess(prev, dt) == [prev EXCEPT !.tcn[1] = fadd(prev.tcn[1], dt)]

\* a slip: every mode but "fourier" taken as "real"
mode_branch_default_real(mode) == IF mode = "fourier" THEN "fourier" ELSE "real"

\* lines 296, 305, 311: the if / elif / else on mode
mode_branch(mode) ==
    IF mode = "fourier" THEN "fourier" ELSE IF mode = "real" THEN "real" ELSE "invalid"

ModeError == "space should be 'real' or 'fourier' "
Raised(exc, msg) == [exc |-> exc, msg |-> msg, sampled |-> 0, ff_len |-> 0, area_term |-> 0]

\* action_gradient(xx, pp, qq, a, mode) on an object whose cached grids are g
action_gradient(xx, a, mode, g) ==
    LET qN == (Len(xx) - 1) \div 4
        st == unpack_dof(xx)
        br == mode_branch(mode)
    IN  IF br = "invalid" THEN Raised("ValueError", ModeError)                \* line 312
        ELSE IF ~g.set THEN Raised("AttributeError", "no attribute")          \* lines 297, 309
        ELSE IF g.qN # qN THEN Raised("ValueError", "could not be broadcast") \* lines 297, 309
        ELSE [exc |-> "none", msg |-> "", sampled |-> 1,                      \* line 317
              ff_len |-> Len(xx),                                             \* line 327
              area_term |-> fsub(st.tcn[1], a)]                               \* lines 315, 328

\* what root may converge to from x0: the guess with the area constraint met
\* (tcn[0] = a), or that with another radius rcn[0]
solver_solutions(x0, a) ==
    LET qN == (Len(x0) - 1) \div 4
        x1 == [x0 EXCEPT ![3 * qN + 1] = fadd(a, One)]
    IN  {x1, [x1 EXCEPT ![2] = fadd(One, One)]}

\* a slip: the curve tried again after a failed solve
solver_failed_retry == "loop"

\* lines 207-208: else: raise RuntimeError(...)
solver_failed == "raised"

NoResult == [kind |-> "none", pp |-> 0, qq |-> 0, a |-> 0]
NoGrad == [called |-> FALSE, qN |-> 0, mode |-> "", grids |-> NoGrids, out |-> Raised("", "")]

self_MM == MMof(params.nfft_multiplier)     \* line 48
self_pqNtor == params.pqNtor                \* line 49

ObjIdle ==
    /\ params = [nfft_multiplier |-> 0, pqNtor |-> 0, action_gradient_mode |-> ""]
    /\ grids = NoGrids /\ pc = "off" /\ pp = 0 /\ qq = 0 /\ rguess = 0 /\ jpq = 0
    /\ arr = <<>> /\ guess = ZeroState(0) /\ xx0 = <<>> /\ calls = <<>>
    /\ result = NoResult /\ ncalls = 0 /\ grad = NoGrad

\* __init__, lines 33-56
ObjInit ==
    /\ \E pr \in ObjParams : \E m \in Modes :
          params = [nfft_multiplier |-> pr.nfft_multiplier, pqNtor |-> pr.pqNtor,
                    action_gradient_mode |-> m]
    /\ grids = NoGrids /\ pc = "idle" /\ pp = 0 /\ qq = 0 /\ rguess = 0 /\ jpq = 0
    /\ arr = <<>> /\ guess = ZeroState(0) /\ xx0 = <<>> /\ calls = <<>>
    /\ result = NoResult /\ ncalls = 0 /\ grad = NoGrad

NotRunning == pc \in {"idle", "returned", "raised"}

\* action(p, q, rg): lines 141-174
ActionCall(p, q, rg) ==
    /\ NotRunning
    /\ ncalls < MaxCalls
    /\ ncalls' = ncalls + 1
    /\ pp' = p /\ qq' = q /\ rguess' = rg
    /\ grids' = action_grids(grids, q, self_MM, self_pqNtor)
    /\ arr' = [j \in 1..fMof(self_MM, self_pqNtor) |-> ZeroState(qNof(q, self_pqNtor))]
    /\ jpq' = 0
    /\ guess' = ZeroState(0) /\ xx0' = <<>> /\ calls' = <<>>
    /\ result' = NoResult /\ grad' = NoGrad
    /\ pc' = "loop"
    /\ UNCHANGED <<params, codecVars, fftVars, foldVars, sbVars>>

\* one iteration of "for jpq in range(fM)", lines 176-222
CurveStep ==
    /\ pc = "loop"
    /\ LET fM == fMof(self_MM, self_pqNtor)
           dt == action_dt(qq, fM)
           a == action_a(jpq, dt)
           g == IF jpq = 0 THEN first_guess(qNof(qq, self_pqNtor), rguess)
                           ELSE next_guess(arr[jpq], dt)
           x0 == PackState(g)
           first == action_gradient(x0, a, params.action_gradient_mode, grids)
       IN  /\ guess' = g
           /\ xx0' = x0
           /\ calls' = Append(calls, [jpq |-> jpq, a |-> a, guess |-> g, grids |-> grids])
           /\ IF first.exc # "none"
              THEN \* the residual raises inside root
                   /\ result' = [kind |-> first.exc, pp |-> pp, qq |-> qq, a |-> a]
                   /\ pc' = "raised"
                   /\ UNCHANGED <<arr, jpq>>
              ELSE \E sol \in {<<>>} \cup solver_solutions(x0, a) :
                     IF sol = <<>>
                     THEN \* sol.success is False: lines 208-216
                          /\ result' = [kind |-> "RuntimeError", pp |-> pp, qq |-> qq, a |-> a]
                          /\ pc' = solver_failed
                          /\ UNCHANGED <<arr, jpq>>
                     ELSE \* lines 206, 218-222
                          /\ arr' = [arr EXCEPT ![jpq + 1] = unpack_dof(sol)]
                          /\ jpq' = jpq + 1
                          /\ pc' = IF jpq + 1 < fM THEN "loop" ELSE "assemble"
                          /\ result' = result
    /\ UNCHANGED <<params, grids, pp, qq, rguess, ncalls, grad>>
    /\ UNCHANGED <<codecVars, fftVars, foldVars, sbVars>>

\* lines 224-264: reconstruction, fold, resampling, rfft2D, return
Assemble ==
    /\ pc = "assemble"
    /\ IF \A i \in 0..(qq - 1) : fold_shapes_ok(i, qq, self_MM, self_pqNtor)
          THEN /\ result' = [kind |-> "spectrum", pp |-> pp, qq |-> qq, a |-> 0]
               /\ pc' = "returned"
          ELSE /\ result' = [kind |-> "ValueError", pp |-> pp, qq |-> qq, a |-> 0]
               /\ pc' = "raised"
    /\ UNCHANGED <<params, grids, pp, qq, rguess, jpq, arr, guess, xx0, calls, ncalls, grad>>
    /\ UNCHANGED <<codecVars, fftVars, foldVars, sbVars>>

\* a direct call action_gradient(xx, pp, q, a, mode), xx of the size for q
GradientCall(q, mode) ==
    /\ NotRunning
    /\ ncalls < MaxCalls
    /\ ncalls' = ncalls + 1
    /\ LET qN == qNof(q, self_pqNtor)
           xx == PackState(first_guess(qN, One \div 2))
       IN  grad' = [called |-> TRUE, qN |-> qN, mode |-> mode, grids |-> grids,
                    out |-> action_gradient(xx, 0, mode, grids)]
    /\ UNCHANGED <<params, grids, pc, pp, qq, rguess, jpq, arr, guess, xx0, calls, result>>
    /\ UNCHANGED <<codecVars, fftVars, foldVars, sbVars>>

(***************************************************************************)
(* The specifications.                                                     *)
(***************************************************************************)
RGuesses == {One \div 2}

Init == ObjInit /\ CodecIdle /\ FftIdle /\ FoldIdle /\ SbIdle

Next ==
    \/ \E p \in 0..MaxP : \E q \in 1..MaxQ : \E rg \in RGuesses : ActionCall(p, q, rg)
    \/ CurveStep
    \/ Assemble
    \/ \E q \in 1..MaxQ : \E mode \in Modes : GradientCall(q, mode)

Spec == Init /\ [][Next]_vars

CodecNext ==
    \/ Pack /\ UNCHANGED <<fftVars, foldVars, sbVars, objVars>>
    \/ Unpack /\ UNCHANGED <<fftVars, foldVars, sbVars, objVars>>

InitCodec == CodecInit /\ FftIdle /\ FoldIdle /\ SbIdle /\ ObjIdle

SpecCodec == InitCodec /\ [][CodecNext]_vars

FftNext ==
    \/ Irfft1DCall /\ UNCHANGED <<codecVars, foldVars, sbVars, objVars>>
    \/ Rfft1DCall /\ UNCHANGED <<codecVars, foldVars, sbVars, objVars>>

InitFft == FftInit /\ CodecIdle /\ FoldIdle /\ SbIdle /\ ObjIdle

SpecFft == InitFft /\ [][FftNext]_vars

FoldNext ==
    \/ FoldStep /\ UNCHANGED <<codecVars, fftVars, sbVars, objVars>>
    \/ ResampleStep /\ UNCHANGED <<codecVars, fftVars, sbVars, objVars>>

InitFold == FoldInit /\ CodecIdle /\ FftIdle /\ SbIdle /\ ObjIdle

SpecFold == InitFold /\ [][FoldNext]_vars

SbNext ==
    \/ SbRound /\ UNCHANGED <<codecVars, fftVars, foldVars, objVars>>
    \/ SbReturn /\ UNCHANGED <<codecVars, fftVars, foldVars, objVars>>

InitStraighten == SbInit /\ CodecIdle /\ FftIdle /\ FoldIdle /\ ObjIdle

SpecStraighten == InitStraighten /\ [][SbNext]_vars

(***************************************************************************)
(* The properties.                                                         *)
(***************************************************************************)
RECURSIVE GCD(_, _)
GCD(a, b) == IF b = 0 THEN Abs(a) ELSE GCD(b, a % b)

cur_fM == fMof(self_MM, self_pqNtor)
cur_dt == action_dt(qq, cur_fM)
ValidModes == {"real", "fourier"}

\* C1: when root reports non-convergence for curve jpq, action ends with a
\* RuntimeError naming pp, qq and a = jpq * dt; root was invoked exactly once
\* for each of the curves 0..jpq and for no curve beyond jpq; no spectrum is
\* returned.
C1_NonConvergenceIsFatal ==
    result.kind = "RuntimeError" =>
        /\ pc = "raised"
        /\ result.pp = pp /\ result.qq = qq
        /\ result.a = fmuli(cur_dt, jpq)
        /\ Len(calls) = jpq + 1
        /\ \A k \in 1..Len(calls) : calls[k].jpq = k - 1
        /\ calls[Len(calls)].a = result.a

C1_Witness ==
    /\ result.kind = "RuntimeError" /\ pc = "raised"
    /\ jpq = 2 /\ Len(calls) = 3 /\ pp = 2 /\ qq = 3

\* C2: the curves are solved in the order 0, 1, ..., fM - 1, curve k with target
\* area k * dt and only after curve k - 1 converged; curve 0 starts from
\* rcn[0] = rguess and zero elsewhere, and every later curve from the stored
\* converged state of its predecessor with tcn[0] increased by dt.
C2_Continuation ==
    pc \in {"loop", "assemble", "returned", "raised"} =>
        /\ Len(calls) <= cur_fM
        /\ Len(calls) \in {jpq, jpq + 1}
        /\ (Len(calls) = jpq + 1 => pc = "raised")
        /\ \A k \in 1..Len(calls) :
             /\ calls[k].jpq = k - 1
             /\ calls[k].a = fmuli(cur_dt, k - 1)
             /\ IF k = 1
                THEN /\ calls[k].guess.rcn[1] = rguess
                     /\ calls[k].guess = [ZeroState(qq * self_pqNtor) EXCEPT !.rcn[1] = rguess]
                ELSE /\ k - 1 <= jpq
                     /\ calls[k].guess.nv = arr[k - 1].nv
                     /\ calls[k].guess.rcn = arr[k - 1].rcn
                     /\ calls[k].guess.tsn = arr[k - 1].tsn
                     /\ calls[k].guess.rsn = arr[k - 1].rsn
                     /\ Len(calls[k].guess.tcn) = Len(arr[k - 1].tcn)
                     /\ \A n \in 2..Len(arr[k - 1].tcn) :
                            calls[k].guess.tcn[n] = arr[k - 1].tcn[n]
                     /\ calls[k].guess.tcn[1] = fadd(arr[k - 1].tcn[1], cur_dt)

C2_Witness ==
    /\ pc = "assemble" /\ jpq = 4 /\ Len(calls) = 4
    /\ calls[4].guess.tcn[1] = fadd(arr[3].tcn[1], cur_dt)
    /\ calls[4].guess.tcn[1] # arr[3].tcn[1]
    /\ arr[3].rcn[1] # rguess

C9_InvalidModeFails ==
    /\ grad.called =>
          IF grad.mode \notin ValidModes
          THEN /\ grad.out.exc = "ValueError" /\ grad.out.msg = ModeError
               /\ grad.out.sampled = 0 /\ grad.out.ff_len = 0
          ELSE grad.out.msg # ModeError
    /\ (pc \in {"loop", "assemble", "returned", "raised"} /\ Len(calls) > 0) =>
          IF params.action_gradient_mode \notin ValidModes
          THEN pc = "raised" /\ result.kind = "ValueError" /\ Len(calls) = 1
          ELSE result.kind # "ValueError"

C9_Witness ==
    /\ grad.called /\ grad.mode = "spectral" /\ grad.grids.set
    /\ grad.grids.qN = grad.qN
    /\ grad.out.exc = "ValueError" /\ grad.out.sampled = 0

FoldFinished == fd_pc \in {"resample", "done"}
Coprime == GCD(fd_pp, fd_qq) = 1
Block(b) == {cell \in DOMAIN fd_alpha : b * fd_fM <= cell[1] /\ cell[1] < (b + 1) * fd_fM}

\* C3: i -> (pp * i) mod qq uses every block index of 0..qq-1 exactly once iff
\* gcd(pp, qq) = 1; for a coprime pair every row block of the folded array is
\* written exactly once, for any other pair some row block is never written
\* and keeps its zeros.
C3_FoldBijection ==
    FoldFinished =>
        /\ Len(fd_used) = fd_qq
        /\ Coprime <=> (\A b \in 0..(fd_qq - 1) :
                            Cardinality({i \in 1..fd_qq : fd_used[i] = b}) = 1)
        /\ Coprime => \A cell \in DOMAIN fd_alpha :
                          fd_writes[cell] = 1 /\ fd_alpha[cell] # ZeroCell
        /\ ~Coprime => \E b \in 0..(fd_qq - 1) : \A cell \in Block(b) :
                          fd_writes[cell] = 0 /\ fd_alpha[cell] = ZeroCell

C3_Witness ==
    /\ FoldFinished /\ fd_pp = 2 /\ fd_qq = 3 /\ fd_fM = 4
    /\ fd_used = <<0, 2, 1>>
    /\ \A cell \in DOMAIN fd_alpha : fd_writes[cell] = 1

\* C10: for gcd(pp, qq) = 1 the resampled grid holds sample r[j, c] at
\* [(j + pp * c) mod (qq * fM), c mod fM], for every curve j and toroidal
\* sample c; every sample appears exactly once and no entry keeps its zero.
C10_VarthetaIdentity ==
    (fd_pc = "done" /\ Coprime) =>
        /\ DOMAIN fd_vartheta = Cells(fd_qq * fd_fM, fd_fM)
        /\ \A j \in 0..(fd_fM - 1) : \A c \in 0..(fd_qq * fd_fM - 1) :
              fd_vartheta[<<(j + fd_pp * c) % (fd_qq * fd_fM), c % fd_fM>>] = <<j, c>>
        /\ \A cell \in DOMAIN fd_vartheta : fd_vartheta[cell] # ZeroCell
        /\ Cardinality({fd_vartheta[cell] : cell \in DOMAIN fd_vartheta})
              = fd_qq * fd_fM * fd_fM

C10_Witness ==
    /\ fd_pc = "done" /\ fd_pp = 2 /\ fd_qq = 3 /\ fd_fM = 4
    /\ fd_vartheta[<<(1 + 2 * 7) % 12, 3>>] = <<1, 7>>

\* x + c is a float: adding c to x rounds nothing away
OffsetExact(x, c) == Round(x + c) = x + c
StateEntries(s) ==
    {s.nv} \cup {s.rcn[i] : i \in DOMAIN s.rcn} \cup {s.tsn[i] : i \in DOMAIN s.tsn}
           \cup {s.rsn[i] : i \in DOMAIN s.rsn} \cup {s.tcn[i] : i \in DOMAIN s.tcn}

C6_ZeroModeExclusion ==
    /\ ft_pc = "done_rfft" => ft_out.sinout[1] = 0
    /\ ft_pc = "done_irfft" => ft_out = irfft1D(ft_cos, sin_in_new(ft_sin), ft_mult)

\* C8: straighten_boundary runs at most niter rounds with one field evaluation
\* each, stops at the first round whose three changes are all below tol and
\* otherwise after niter rounds, returns the state of the last round run, and
\* can always take a step until it has returned.
C8_Terminates ==
    sb_pc # "idle" =>
        /\ sb_i <= sb_niter /\ sb_evals = sb_i /\ sb_state = sb_i
        /\ sb_conv \subseteq {sb_i}
        /\ sb_pc = "loop" => sb_conv = {}
        /\ sb_pc = "break" => sb_conv = {sb_i}
        /\ sb_pc = "returned" =>
              /\ sb_ret = sb_i
              /\ sb_conv = {sb_i} \/ (sb_conv = {} /\ sb_i = sb_niter)
        /\ sb_pc # "returned" => ENABLED SbNext

C8_Witness ==
    /\ sb_pc = "returned" /\ sb_niter = 3 /\ sb_i = 2 /\ sb_ret = 2 /\ sb_conv = {2}
    /\ sb_evals = 2

====
